---- MODULE Spec2Model ----
(***************************************************************************)
(* Model of src/pfsys/mod.rs: the proof-system bridge.                     *)
(*                                                                         *)
(*  - SpecPrepare : prepare_model_circuit and                              *)
(*                  prepare_model_circuit_and_public_input as functions    *)
(*                  of a ModelInput and a Cli.                             *)
(*  - Spec        : create_proof_circuit, Snark::save and Snark::load on   *)
(*                  two proof paths, with process crashes.                 *)
(*  - SpecProve   : the behaviours of Spec that only prove.                *)
(*  - SpecArtifact: the behaviours of Spec after a proof was made: save,   *)
(*                  load and crashes.                                      *)
(*  - SpecKeys    : save_pk / save_vk / save_params on one path, with      *)
(*                  process crashes.                                       *)
(***************************************************************************)
EXTENDS Integers, Sequences, FiniteSets, TLC

VARIABLES
    \* ---- SpecPrepare ----
    data,            \* the ModelInput handed to the call
    cli,             \* the Cli handed to the call, with the Model built from it (line 200)
    overflow_checks, \* build profile: TRUE = debug (overflow panics), FALSE = release (wraps)
    circuit_res,     \* outcome of the last prepare_model_circuit call
    prep_res,        \* outcome of the last prepare_model_circuit_and_public_input call
    \* ---- Spec ----
    pc,              \* where the process is: "idle" or a step of a running call
    held,            \* the Snark the caller holds (from create_proof_circuit or Snark::load)
    file,            \* content of each proof path on disk
    res,             \* the call made last and its outcome ("Running" until it returns)
    sv,              \* Snark::save in progress: path, serialized text, content before the call
    \* ---- SpecKeys ----
    kpc,             \* where a key/parameter writer is: "idle", "write", "flush", "drop"
    kfile,           \* content of the key/parameter path on disk
    kw,              \* the writer: encoding, bytes taken, BufWriter buffer, failure seen
    kres             \* outcome of the last writer call, and whether a crash followed

varsPrepare == <<data, cli, overflow_checks, circuit_res, prep_res>>
varsSnark == <<pc, held, file, res, sv>>
varsKeys == <<kpc, kfile, kw, kres>>
vars == <<varsPrepare, varsSnark, varsKeys>>

-----------------------------------------------------------------------------
(***************************************************************************)
(* Bounds                                                                  *)
(***************************************************************************)
MaxInputs == 2    \* most vectors in input_data and in input_shapes
MaxOutputs == 2   \* most vectors in output_data
MaxVecLen == 5    \* longest float vector
MaxGroups == 2    \* most instance groups handed to create_proof_circuit
FeltWidth == 2    \* bytes of a field element's raw encoding
MaxKeyLen == 5    \* longest key/parameter encoding, in bytes
PieceLen == 2     \* bytes the encoder hands to one write_all
BufCap == 3       \* capacity of the BufWriter buffer

-----------------------------------------------------------------------------
(***************************************************************************)
(* Generic helpers                                                         *)
(***************************************************************************)
SeqsUpTo(S, n) == UNION {[1..k -> S] : k \in 0..n}

RECURSIVE Product(_)
Product(s) == IF s = <<>> THEN 1 ELSE Head(s) * Product(Tail(s))

Min(a, b) == IF a < b THEN a ELSE b

-----------------------------------------------------------------------------
(***************************************************************************)
(* u32 arithmetic of the packing guard.  A u32 is kept as its four         *)
(* little-endian bytes so that the 2^32 width is exact.                    *)
(***************************************************************************)
U32Bytes(n) ==
    <<n % 256, (n \div 256) % 256, (n \div 65536) % 256, (n \div 16777216) % 256>>

\* (0usize - 1) as u32 in a build without overflow checks
U32Max == <<255, 255, 255, 255>>

\* column sums of the schoolbook product of two 4-byte numbers
MulColumn(a, b, k) ==
    LET Term(i) == IF k - i >= 0 /\ k - i <= 3 /\ i <= 3 THEN a[i + 1] * b[k - i + 1] ELSE 0
    IN  Term(0) + Term(1) + Term(2) + Term(3)

RECURSIVE MulCarry(_, _, _, _)
MulCarry(a, b, k, carry) ==
    IF k > 7 THEN <<>>
    ELSE LET t == MulColumn(a, b, k) + carry
         IN  <<t % 256>> \o MulCarry(a, b, k + 1, t \div 256)

\* the full 64-bit product, eight little-endian bytes
MulWide(a, b) == MulCarry(a, b, 0, 0)

\* u32 * u32 without overflow checks: the low 32 bits
WrappingMulU32(a, b) == SubSeq(MulWide(a, b), 1, 4)

\* u32 * u32 overflows iff the high 32 bits are not zero
MulOverflowsU32(a, b) == SubSeq(MulWide(a, b), 5, 8) # <<0, 0, 0, 0>>

\* (x as f64) > t for a u32 x and an integer t in 0..255
U32GreaterThan(x, t) == x[4] > 0 \/ x[3] > 0 \/ x[2] > 0 \/ x[1] > t

-----------------------------------------------------------------------------
(***************************************************************************)
(* Tensors of quantized integers.  The quantizer, the packer and the lift  *)
(* into the field are primitives of other modules of the crate; their      *)
(* results are kept as terms: a quantized integer is the pair              *)
(* <<x, scale>> (the float x at 2^scale), a packed integer is the list of  *)
(* the quantized integers it combines with its base and scale.             *)
(***************************************************************************)
PlainInt(x, scale) == [base |-> 0, pscale |-> 0, digits |-> << <<x, scale>> >>]

EmptyTensor == [dims |-> <<>>, vals |-> <<>>]

\* graph::utilities::vector_to_quantized(vec, dims, 0.0, scale)
VectorToQuantized(vec, dims, scale) ==
    IF Product(dims) # Len(vec)
    THEN [tag |-> "Err", err |-> "DimError", tensor |-> EmptyTensor]
    ELSE [tag |-> "Ok", err |-> "",
          tensor |-> [dims |-> dims,
                      vals |-> [i \in 1..Len(vec) |-> PlainInt(vec[i], scale)]]]

\* tensor::ops::pack(t, base, scale): one integer sum_i t[i] * base^(i*(scale+1))
Pack(t, base, scale) ==
    [dims |-> <<1>>,
     vals |-> << [base |-> base, pscale |-> scale,
                  digits |-> [i \in 1..Len(t.vals) |-> t.vals[i].digits[1]]] >>]

\* fieldutils::i128_to_felt
I128ToFelt(e) == [felt_of |-> e]

-----------------------------------------------------------------------------
(***************************************************************************)
(* prepare_model_circuit                                                   *)
(***************************************************************************)
\* data.input_data.iter().zip(data.input_shapes.clone()): the pairs the loop visits
ZipLen(input_data, input_shapes) == Min(Len(input_data), Len(input_shapes))

RECURSIVE QuantizeInputs(_, _, _, _, _)
QuantizeInputs(input_data, input_shapes, scale, i, acc) ==
    IF i > ZipLen(input_data, input_shapes)
    THEN [tag |-> "Ok", err |-> "", inputs |-> acc]
    ELSE LET q == VectorToQuantized(input_data[i], input_shapes[i], scale)
         IN  IF q.tag = "Err"
             THEN [tag |-> "Err", err |-> q.err, inputs |-> <<>>]
             ELSE QuantizeInputs(input_data, input_shapes, scale, i + 1,
                                 Append(acc, q.tensor))

prepare_model_circuit(d, scale) ==
    QuantizeInputs(d.input_data, d.input_shapes, scale, 1, <<>>)

-----------------------------------------------------------------------------
(***************************************************************************)
(* prepare_model_circuit_and_public_input                                  *)
(***************************************************************************)
\* floor((i128::MAX as f64).log(pack_base as f64)); i128::MAX as f64 is 2^127
\* exactly, and ln(2^127)/ln(2) evaluates to 127.0
F64LogFloor(b) ==
    CASE b = 2 -> 127 [] b = 3 -> 80 [] b = 4 -> 63 [] b = 10 -> 38 [] b = 16 -> 31

\* ((len - 1) as u32): usize subtraction, then truncation to 32 bits
LenMinusOne(len, checks) ==
    IF len = 0
    THEN IF checks THEN [panic |-> TRUE, v |-> U32Max] ELSE [panic |-> FALSE, v |-> U32Max]
    ELSE [panic |-> FALSE, v |-> U32Bytes(len - 1)]

\* ((len - 1) as u32) * (scale + 1), as the build computes it
MaxExponent(len, scale, checks) ==
    LET a == LenMinusOne(len, checks)
        b == U32Bytes(scale + 1)
    IN  IF a.panic \/ (checks /\ MulOverflowsU32(a.v, b))
        THEN [panic |-> TRUE, v |-> U32Max]
        ELSE [panic |-> FALSE, v |-> WrappingMulU32(a.v, b)]

\* the guard of lines 219-222: "panic", "PackingExponent" or "pack"
PackGuard(len, scale, pack_base, checks) ==
    LET e == MaxExponent(len, scale, checks)
    IN  IF e.panic THEN "panic"
        ELSE IF U32GreaterThan(e.v, F64LogFloor(pack_base)) THEN "PackingExponent"
        ELSE "pack"

NoPrep == [tag |-> "None", err |-> "", circuit |-> <<>>, instances |-> <<>>, packs |-> 0]

PrepFail(tag, err, packs) ==
    [tag |-> tag, err |-> err, circuit |-> <<>>, instances |-> <<>>, packs |-> packs]

\* the loop of lines 209-212 over data.input_data
RECURSIVE PublicInputLoop(_, _, _, _)
PublicInputLoop(input_data, scale, i, acc) ==
    IF i > Len(input_data)
    THEN [tag |-> "Ok", err |-> "", groups |-> acc, packs |-> 0]
    ELSE LET v == input_data[i]
             q == VectorToQuantized(v, <<Len(v)>>, scale)
         IN  IF q.tag = "Err"
             THEN [tag |-> "Err", err |-> q.err, groups |-> acc, packs |-> 0]
             ELSE PublicInputLoop(input_data, scale, i + 1, Append(acc, q.tensor))

\* the loop of lines 215-226 over data.output_data
RECURSIVE PublicOutputLoop(_, _, _, _, _, _)
PublicOutputLoop(output_data, c, checks, idx, acc, packs) ==
    IF idx > Len(output_data)
    THEN [tag |-> "Ok", err |-> "", groups |-> acc, packs |-> packs]
    ELSE IF idx > Len(c.out_scales)
    THEN [tag |-> "Panic", err |-> "index out of bounds", groups |-> acc, packs |-> packs]
    ELSE LET v == output_data[idx]
             q == VectorToQuantized(v, <<Len(v)>>, c.out_scales[idx])
             len == Len(q.tensor.vals)
             g == PackGuard(len, c.scale, c.pack_base, checks)
         IN  IF q.tag = "Err"
             THEN [tag |-> "Err", err |-> q.err, groups |-> acc, packs |-> packs]
             ELSE IF c.pack_base > 1
             THEN IF g = "panic"
                  THEN [tag |-> "Panic", err |-> "arithmetic overflow",
                        groups |-> acc, packs |-> packs]
                  ELSE IF g = "PackingExponent"
                  THEN [tag |-> "Err", err |-> "PackingExponent",
                        groups |-> acc, packs |-> packs]
                  ELSE PublicOutputLoop(output_data, c, checks, idx + 1,
                                        Append(acc, Pack(q.tensor, c.pack_base, c.scale)),
                                        packs + 1)
             ELSE PublicOutputLoop(output_data, c, checks, idx + 1,
                                   Append(acc, q.tensor), packs)

\* a build of lines 207-227 that pushes the output groups before the input groups
PublicInputsOutputsFirst(d, c, checks) ==
    LET outs == IF c.out_public
                THEN PublicOutputLoop(d.output_data, c, checks, 1, <<>>, 0)
                ELSE [tag |-> "Ok", err |-> "", groups |-> <<>>, packs |-> 0]
        ins == IF c.in_public
               THEN PublicInputLoop(d.input_data, c.scale, 1, <<>>)
               ELSE [tag |-> "Ok", err |-> "", groups |-> <<>>, packs |-> 0]
    IN  IF outs.tag # "Ok" THEN outs
        ELSE IF ins.tag # "Ok" THEN ins
        ELSE [tag |-> "Ok", err |-> "", groups |-> outs.groups \o ins.groups,
              packs |-> outs.packs]

\* lines 207-227: public_inputs, input groups first, then output groups
PublicInputs(d, c, checks) ==
    LET ins == IF c.in_public
               THEN PublicInputLoop(d.input_data, c.scale, 1, <<>>)
               ELSE [tag |-> "Ok", err |-> "", groups |-> <<>>, packs |-> 0]
    IN  IF ins.tag # "Ok" THEN ins
        ELSE IF c.out_public
             THEN PublicOutputLoop(d.output_data, c, checks, 1, ins.groups, 0)
             ELSE ins

\* lines 237-240: every integer of every group lifted into the field
PiInner(groups) ==
    [g \in 1..Len(groups) |->
        [e \in 1..Len(groups[g].vals) |-> I128ToFelt(groups[g].vals[e])]]

prepare_model_circuit_and_public_input(d, c, checks) ==
    LET circuit == prepare_model_circuit(d, c.scale)
        pub == PublicInputs(d, c, checks)
    IN  IF circuit.tag = "Err" THEN PrepFail("Err", circuit.err, 0)
        ELSE IF pub.tag # "Ok" THEN PrepFail(pub.tag, pub.err, pub.packs)
        ELSE [tag |-> "Ok", err |-> "", circuit |-> circuit.inputs,
              instances |-> PiInner(pub.groups), packs |-> pub.packs]

-----------------------------------------------------------------------------
(***************************************************************************)
(* SpecPrepare: the two functions applied to inputs drawn from small sets  *)
(***************************************************************************)
FloatVec(n) == [i \in 1..n |-> i]

InputVecs == {FloatVec(n) : n \in {1, 2}}
OutputVecs == {FloatVec(n) : n \in {0, 2, MaxVecLen}}
Shapes == {<<1>>, <<2>>}
Scales == {0, 126, 1073741823}
PackBases == {1, 2}
OutScales == {<<4>>, <<4, 0>>}

ModelInputs ==
    [input_data : SeqsUpTo(InputVecs, MaxInputs),
     input_shapes : SeqsUpTo(Shapes, MaxInputs),
     output_data : SeqsUpTo(OutputVecs, MaxOutputs)]

Clis ==
    [scale : Scales, pack_base : PackBases, in_public : BOOLEAN,
     out_public : BOOLEAN, out_scales : OutScales]

NoCircuit == [tag |-> "None", err |-> "", inputs |-> <<>>]

InitPrepareVars ==
    /\ data \in ModelInputs
    /\ cli \in Clis
    /\ overflow_checks \in BOOLEAN
    /\ circuit_res = NoCircuit
    /\ prep_res = NoPrep

PrepareModelCircuit ==
    /\ circuit_res' = prepare_model_circuit(data, cli.scale)
    /\ UNCHANGED <<data, cli, overflow_checks, prep_res>>
    /\ UNCHANGED <<varsSnark, varsKeys>>

PrepareModelCircuitAndPublicInput ==
    /\ prep_res' = prepare_model_circuit_and_public_input(data, cli, overflow_checks)
    /\ UNCHANGED <<data, cli, overflow_checks, circuit_res>>
    /\ UNCHANGED <<varsSnark, varsKeys>>

-----------------------------------------------------------------------------
(***************************************************************************)
(* The proof artifact: Snark in memory, Snarkbytes on disk                 *)
(***************************************************************************)
\* Option<PlonkProtocol>: None, or the protocol with its num_instance
NoProtocol == [present |-> FALSE, num_instance |-> <<>>]

SomeProtocol(num_instance) == [present |-> TRUE, num_instance |-> num_instance]

\* the caller holds no Snark
NoSnark == [some |-> FALSE, protocol |-> NoProtocol, instances |-> <<>>, proof |-> <<>>]

MkSnark(prot, inst, pf) == [some |-> TRUE, protocol |-> prot, instances |-> inst, proof |-> pf]

\* Snark::new
SnarkNew(prot, inst, pf) == MkSnark(SomeProtocol(prot.num_instance), inst, pf)

\* a field element is its raw integer; to_raw_bytes writes it little-endian
ToRawBytes(x) == [i \in 1..FeltWidth |-> (x \div (256 ^ (i - 1))) % 256]

\* from_raw_bytes_unchecked reads the little-endian bytes back, unchecked
RECURSIVE FromRawBytesUnchecked(_)
FromRawBytesUnchecked(bs) ==
    IF bs = <<>> THEN 0 ELSE Head(bs) + 256 * FromRawBytesUnchecked(Tail(bs))

\* tokens of the JSON text; numbers stand for themselves
LBRACE == -1
RBRACE == -2
LBRACK == -3
RBRACK == -4
KEY_NUM_INSTANCE == -5
KEY_INSTANCES == -6
KEY_PROOF == -7

RECURSIVE SerVec(_, _)
\* serde_json::to_string of a Vec nested depth levels above its numbers
SerVec(v, depth) ==
    LET RECURSIVE Elems(_)
        Elems(i) == IF i > Len(v) THEN <<>>
                    ELSE (IF depth = 0 THEN <<v[i]>> ELSE SerVec(v[i], depth - 1))
                         \o Elems(i + 1)
    IN  <<LBRACK>> \o Elems(1) \o <<RBRACK>>

\* serde_json::to_string(&Snarkbytes)
ToJsonString(sb) ==
    <<LBRACE, KEY_NUM_INSTANCE>> \o SerVec(sb.num_instance, 0)
        \o <<KEY_INSTANCES>> \o SerVec(sb.instances, 2)
        \o <<KEY_PROOF>> \o SerVec(sb.proof, 0) \o <<RBRACE>>

ParseFail == [ok |-> FALSE, val |-> <<>>, pos |-> 0]

RECURSIVE ParseVec(_, _, _, _)
RECURSIVE ParseElems(_, _, _, _, _)
\* a Vec nested depth levels above its numbers; limit: the numbers are u8
ParseVec(toks, pos, depth, limit) ==
    IF pos > Len(toks) \/ toks[pos] # LBRACK THEN ParseFail
    ELSE ParseElems(toks, pos + 1, depth, limit, <<>>)

ParseElems(toks, pos, depth, limit, acc) ==
    IF pos > Len(toks) THEN ParseFail
    ELSE IF toks[pos] = RBRACK THEN [ok |-> TRUE, val |-> acc, pos |-> pos + 1]
    ELSE IF depth = 0
         THEN IF toks[pos] >= 0 /\ (limit => toks[pos] <= 255)
              THEN ParseElems(toks, pos + 1, depth, limit, Append(acc, toks[pos]))
              ELSE ParseFail
         ELSE LET r == ParseVec(toks, pos, depth - 1, limit)
              IN  IF r.ok THEN ParseElems(toks, r.pos, depth, limit, Append(acc, r.val))
                  ELSE ParseFail

NoSnarkbytes == [ok |-> FALSE, num_instance |-> <<>>, instances |-> <<>>, proof |-> <<>>]

\* serde_json::from_str::<Snarkbytes>
FromStr(toks) ==
    IF Len(toks) < 2 \/ toks[1] # LBRACE \/ toks[2] # KEY_NUM_INSTANCE THEN NoSnarkbytes
    ELSE LET n == ParseVec(toks, 3, 0, FALSE)
         IN  IF ~n.ok \/ n.pos > Len(toks) \/ toks[n.pos] # KEY_INSTANCES THEN NoSnarkbytes
             ELSE LET i == ParseVec(toks, n.pos + 1, 2, TRUE)
                  IN  IF ~i.ok \/ i.pos > Len(toks) \/ toks[i.pos] # KEY_PROOF
                      THEN NoSnarkbytes
                      ELSE LET q == ParseVec(toks, i.pos + 1, 0, TRUE)
                           IN  IF ~q.ok \/ q.pos # Len(toks) \/ toks[q.pos] # RBRACE
                               THEN NoSnarkbytes
                               ELSE [ok |-> TRUE, num_instance |-> n.val,
                                     instances |-> i.val, proof |-> q.val]

\* lines 89-97: the Snarkbytes of a Snark that has a protocol
SnarkToBytes(snark) ==
    [num_instance |-> snark.protocol.num_instance,
     instances |-> [g \in 1..Len(snark.instances) |->
                      [e \in 1..Len(snark.instances[g]) |->
                          ToRawBytes(snark.instances[g][e])]],
     proof |-> snark.proof]

\* lines 119-127: the field elements of a Snarkbytes
DecodeInstances(sb) ==
    [g \in 1..Len(sb.instances) |->
        [e \in 1..Len(sb.instances[g]) |-> FromRawBytesUnchecked(sb.instances[g][e])]]

\* snark_verifier's compile(params, vk, Config::kzg().with_num_instance(n))
Compile(num_instance) == SomeProtocol(num_instance)

\* lines 131-149: the Snark built from the parsed record
LoadedSnark(sb, has_params, has_vk) ==
    IF ~has_params \/ ~has_vk
    THEN MkSnark(NoProtocol, DecodeInstances(sb), sb.proof)
    ELSE MkSnark(Compile(sb.num_instance), DecodeInstances(sb), sb.proof)

-----------------------------------------------------------------------------
(***************************************************************************)
(* create_proof_circuit.  The library calls it makes (MockProver::run,     *)
(* MockProver::verify, compile, create_proof, verify_proof) are driven by  *)
(* an outcome script oc, one outcome per call; the function returns its    *)
(* result together with the sequence of calls it made.                     *)
(***************************************************************************)
Paths == {"proof_a", "proof_b"}

PlonkErrors == {"Synthesis", "ConstraintSystemFailure", "Opening", "Transcript"}

ProofSamples == {<<1, 2>>}

InstanceSample(n) == [g \in 1..n |-> [e \in 1..(n + 1 - g) |-> 250 * g + 3 * e]]

InstanceSamples == {InstanceSample(n) : n \in 1..MaxGroups}

CheckModes == {"SAFE", "UNSAFE"}

Outcomes ==
    [mock_run : {"ok"} \cup PlonkErrors,
     mock_verify : {"ok", "failures"},
     create_proof : {"ok"} \cup PlonkErrors,
     proof : ProofSamples,
     verify_proof : {"ok"} \cup PlonkErrors]

NoErr == [type |-> "", inner |-> ""]

\* Box<dyn Error> made from a halo2 plonk::Error by From / the ? operator
BoxPlonkError(e) == [type |-> "plonk::Error", inner |-> e]

\* line 331: ExecutionError::VerifyError(e)
BoxVerifyError(e) == [type |-> "ExecutionError::VerifyError", inner |-> e]

Call(stage, ok) == [stage |-> stage, ok |-> ok]

CpcErr(e, trace) == [tag |-> "Err", err |-> e, snark |-> NoSnark, calls |-> trace]

CpcOk(snark, trace) == [tag |-> "Ok", err |-> NoErr, snark |-> snark, calls |-> trace]

\* a build that declares the number of groups instead of each group's length
NumberInstanceGroups(inst) == <<Len(inst)>>

\* line 336: instances.iter().map(|x| x.len()).collect()
NumberInstance(inst) == [g \in 1..Len(inst) |-> Len(inst[g])]

\* line 325 and line 366: check_mode == CheckMode::SAFE
IsSafe(mode) == mode = "SAFE"

\* lines 327-328: MockProver::run(..).map_err(..)? leaves the function on an error
MockRunReturns(oc) == oc.mock_run # "ok"

\* a build that drops the ? after prover.verify()
MockVerifyIgnored(oc) == FALSE

\* lines 329-331: prover.verify().map_err(..)? leaves the function on an error
MockVerifyReturns(oc) == oc.mock_verify # "ok"

\* lines 352-359: create_proof(..)? leaves the function on an error
CreateProofReturns(oc) == oc.create_proof # "ok"

\* a build that drops the ? after verify_proof_circuit(..)
SelfVerifyIgnored(oc) == FALSE

\* lines 369-374: verify_proof_circuit(..)? leaves the function on an error
SelfVerifyReturns(oc) == oc.verify_proof # "ok"

\* lines 363-377: Snark::new, then the self-verification in SAFE mode
AssembleAndVerify(prot, inst, mode, oc, trace) ==
    LET checkable_pf == SnarkNew(prot, inst, oc.proof)
        t1 == Append(trace, Call("assemble", TRUE))
        t2 == Append(t1, Call("verify_proof", oc.verify_proof = "ok"))
    IN  IF IsSafe(mode)
        THEN IF SelfVerifyReturns(oc)
             THEN CpcErr(BoxPlonkError(oc.verify_proof), t2)
             ELSE CpcOk(checkable_pf, t2)
        ELSE CpcOk(checkable_pf, t1)

\* lines 334-361: compile the protocol, run create_proof, finalize the transcript
CompileAndProve(inst, mode, oc, trace) ==
    LET number_instance == NumberInstance(inst)
        prot == Compile(number_instance)
        t1 == Append(trace, Call("compile", TRUE))
        t2 == Append(t1, Call("create_proof", oc.create_proof = "ok"))
    IN  IF CreateProofReturns(oc)
        THEN CpcErr(BoxPlonkError(oc.create_proof), t2)
        ELSE AssembleAndVerify(prot, inst, mode, oc, t2)

\* lines 324-378
create_proof_circuit(inst, mode, oc) ==
    LET t1 == <<Call("mock_run", oc.mock_run = "ok")>>
        t2 == Append(t1, Call("mock_verify", oc.mock_verify = "ok"))
    IN  IF IsSafe(mode)
        THEN IF MockRunReturns(oc)
             THEN CpcErr(BoxPlonkError(oc.mock_run), t1)
             ELSE IF MockVerifyReturns(oc)
                  THEN CpcErr(BoxVerifyError(oc.mock_verify), t2)
                  ELSE CompileAndProve(inst, mode, oc, t2)
        ELSE CompileAndProve(inst, mode, oc, <<>>)

NoRes ==
    [op |-> "none", tag |-> "None", err |-> NoErr, calls |-> <<>>, path |-> "",
     ctx |-> FALSE, mode |-> "", inst |-> <<>>]

\* the outcome of a call; ctx: Snark::load was given both params and vk;
\* mode, inst: the check_mode and the instances create_proof_circuit was
\* called with
MkRes(op, tag, err, trace, path) ==
    [op |-> op, tag |-> tag, err |-> err, calls |-> trace, path |-> path, ctx |-> FALSE,
     mode |-> "", inst |-> <<>>]

\* the outcome of a create_proof_circuit call
CpcRes(c) ==
    [MkRes("create_proof_circuit", c.ret.tag, c.ret.err, c.ret.calls, "")
        EXCEPT !.mode = c.mode, !.inst = c.inst]

\* every result the call can return for the sampled arguments and outcomes,
\* with the check_mode and the instances it was called with
CpcResults ==
    {[mode |-> mode, inst |-> inst, ret |-> create_proof_circuit(inst, mode, oc)] :
        inst \in InstanceSamples, mode \in CheckModes, oc \in Outcomes}

CreateProofCircuit ==
    /\ pc = "idle"
    /\ \E c \in CpcResults :
          /\ res' = CpcRes(c)
          /\ held' = IF c.ret.tag = "Ok" THEN c.ret.snark ELSE held
    /\ UNCHANGED <<pc, file, sv>>
    /\ UNCHANGED <<varsPrepare, varsKeys>>

-----------------------------------------------------------------------------
(***************************************************************************)
(* Snark::save and Snark::load on the proof paths                          *)
(***************************************************************************)
NoFile == [exists |-> FALSE, bytes |-> <<>>]

MkFile(bytes) == [exists |-> TRUE, bytes |-> bytes]

NoSave == [active |-> FALSE, path |-> "", buf |-> <<>>, prev |-> NoFile]

IoError(what) == [type |-> "io::Error", inner |-> what]

\* line 90: self.protocol.as_ref().unwrap() aborts on a Snark without protocol
UnwrapProtocolPanics(snark) == ~snark.protocol.present

\* lines 89-101: build the record, serialize it, File::create the path
SaveCreate ==
    /\ pc = "idle"
    /\ held.some
    /\ \E path \in Paths :
          IF UnwrapProtocolPanics(held)
          THEN /\ res' = MkRes("save", "Panic", NoErr, <<>>, path)
               /\ UNCHANGED <<pc, file, sv>>
          ELSE \/ /\ res' = MkRes("save", "Err", IoError("create"), <<>>, path)
                  /\ UNCHANGED <<pc, file, sv>>
               \/ /\ file' = [file EXCEPT ![path] = MkFile(<<>>)]
                  /\ sv' = [active |-> TRUE, path |-> path,
                            buf |-> ToJsonString(SnarkToBytes(held)),
                            prev |-> file[path]]
                  /\ pc' = "save_write"
                  /\ res' = MkRes("save", "Running", NoErr, <<>>, path)
    /\ UNCHANGED held
    /\ UNCHANGED <<varsPrepare, varsKeys>>

\* lines 102-103: file.write_all(serialized.as_bytes()), one write() per step;
\* a write() takes any number of the remaining tokens, or fails
SaveWrite ==
    /\ pc = "save_write"
    /\ LET written == Len(file[sv.path].bytes)
           remaining == Len(sv.buf) - written
       IN  \/ /\ res' = MkRes("save", "Err", IoError("write"), <<>>, sv.path)
              /\ pc' = "idle"
              /\ sv' = NoSave
              /\ UNCHANGED file
           \/ \E n \in 1..remaining :
                 /\ file' = [file EXCEPT ![sv.path] =
                                MkFile(SubSeq(sv.buf, 1, written + n))]
                 /\ IF n = remaining
                    THEN /\ pc' = "idle"
                         /\ sv' = NoSave
                         /\ res' = MkRes("save", "Ok", NoErr, <<>>, sv.path)
                    ELSE UNCHANGED <<pc, res, sv>>
    /\ UNCHANGED held
    /\ UNCHANGED <<varsPrepare, varsKeys>>

\* lines 107-150, the whole call
Load ==
    /\ pc = "idle"
    /\ \E path \in Paths, has_params \in BOOLEAN, has_vk \in BOOLEAN :
          LET sb == FromStr(file[path].bytes)
          IN  IF ~file[path].exists
              THEN /\ res' = MkRes("load", "Err", IoError("open"), <<>>, path)
                   /\ UNCHANGED held
              ELSE IF ~sb.ok
              THEN /\ res' = MkRes("load", "Err",
                                   [type |-> "serde_json::Error", inner |-> "parse"],
                                   <<>>, path)
                   /\ UNCHANGED held
              ELSE /\ res' = [MkRes("load", "Ok", NoErr, <<>>, path)
                                EXCEPT !.ctx = has_params /\ has_vk]
                   /\ held' = LoadedSnark(sb, has_params, has_vk)
    /\ UNCHANGED <<pc, file, sv>>
    /\ UNCHANGED <<varsPrepare, varsKeys>>

\* the process dies: memory is lost, the files stay as they are
Crash ==
    /\ pc # "idle" \/ held.some
    /\ pc' = "idle"
    /\ held' = NoSnark
    /\ res' = MkRes("crash", "None", NoErr, <<>>, "")
    /\ sv' = NoSave
    /\ UNCHANGED file
    /\ UNCHANGED <<varsPrepare, varsKeys>>

-----------------------------------------------------------------------------
(***************************************************************************)
(* save_pk, save_vk, save_params: File::create, a BufWriter around the     *)
(* file, the encoder's write_all calls, writer.flush(), and the drop of    *)
(* the writer when the function is left.                                   *)
(***************************************************************************)
\* the raw-byte encoding of a key or of the parameters, n bytes long
KeyEncoding(n) == [i \in 1..n |-> i]

KeyEncodings == {KeyEncoding(n) : n \in 0..MaxKeyLen}

NoKeyWriter == [fn |-> "", enc |-> <<>>, off |-> 0, buf |-> <<>>, failed |-> FALSE,
                pending |-> "", flushing |-> FALSE, direct |-> 0]

NoKeyRes == [fn |-> "", tag |-> "None", crashed |-> FALSE]

\* the piece the encoder hands to write_all next
NextPiece(w) == SubSeq(w.enc, w.off + 1, Min(Len(w.enc), w.off + PieceLen))

\* BufWriter: room left in the buffer
SpareCapacity(w) == BufCap - Len(w.buf)

\* after the encoder's last piece the function calls writer.flush()
AfterPiece(w) == IF w.off = Len(w.enc) THEN "flush" ELSE "write"

\* `?` on a failed write_all of the encoder: the function is left with Err
AfterWriteError == "Err"

\* a build that discards the result of writer.flush()
AfterFlushErrorIgnored == "Ok"

\* `?` on a failed writer.flush(): the function is left with Err
AfterFlushError == "Err"

\* File::create(path)?, BufWriter::new(f)
KeyStart(fn) ==
    /\ \E enc \in KeyEncodings :
          \/ /\ kres' = [fn |-> fn, tag |-> "Err", crashed |-> FALSE]
             /\ kw' = [NoKeyWriter EXCEPT !.fn = fn, !.enc = enc, !.failed = TRUE]
             /\ UNCHANGED <<kpc, kfile>>
          \/ /\ kfile' = MkFile(<<>>)
             /\ kw' = [NoKeyWriter EXCEPT !.fn = fn, !.enc = enc]
             /\ kpc' = AfterPiece(kw')
             /\ kres' = [fn |-> fn, tag |-> "None", crashed |-> FALSE]
    /\ UNCHANGED <<varsPrepare, varsSnark>>

\* lines 455-469
SavePk ==
    /\ kpc = "idle"
    /\ KeyStart("save_pk")

\* lines 472-486
SaveVk ==
    /\ kpc = "idle"
    /\ KeyStart("save_vk")

\* lines 489-499
SaveParams ==
    /\ kpc = "idle"
    /\ KeyStart("save_params")

\* one inner write() of flush_buf: n bytes of the buffer reach the file, and
\* the loop of flush_buf goes on until the buffer is empty
FlushBufStep(n) ==
    /\ kfile' = MkFile(kfile.bytes \o SubSeq(kw.buf, 1, n))
    /\ kw' = [kw EXCEPT !.buf = SubSeq(kw.buf, n + 1, Len(kw.buf)),
                        !.flushing = (n < Len(kw.buf))]

\* the function is left: the writer is dropped next
Leave(tag, failed) ==
    /\ kw' = [kw EXCEPT !.pending = tag, !.failed = failed, !.flushing = FALSE,
                        !.direct = 0]
    /\ kpc' = "drop"

\* key.write(&mut writer, ..)?: one write_all of the encoder on the BufWriter
KeyWritePiece ==
    /\ kpc = "write"
    /\ LET p == NextPiece(kw)
       IN  IF kw.flushing \/ (Len(p) > SpareCapacity(kw) /\ kw.buf # <<>>)
           THEN \* flush_buf runs to its end before the piece is taken
                \/ /\ Leave(AfterWriteError, TRUE)
                   /\ UNCHANGED kfile
                \/ \E n \in 1..Len(kw.buf) :
                      /\ FlushBufStep(n)
                      /\ UNCHANGED kpc
           ELSE IF Len(p) >= BufCap
           THEN \* the piece bypasses the buffer: one write() of inner.write_all
                \/ /\ Leave(AfterWriteError, TRUE)
                   /\ UNCHANGED kfile
                \/ \E n \in 1..(Len(p) - kw.direct) :
                      /\ kfile' = MkFile(kfile.bytes \o
                                         SubSeq(p, kw.direct + 1, kw.direct + n))
                      /\ IF kw.direct + n = Len(p)
                         THEN /\ kw' = [kw EXCEPT !.off = @ + Len(p), !.direct = 0]
                              /\ kpc' = AfterPiece(kw')
                         ELSE /\ kw' = [kw EXCEPT !.direct = @ + n]
                              /\ UNCHANGED kpc
           ELSE \* the piece is copied into the buffer
                /\ kw' = [kw EXCEPT !.off = @ + Len(p), !.buf = @ \o p]
                /\ kpc' = AfterPiece(kw')
                /\ UNCHANGED kfile
    /\ UNCHANGED kres
    /\ UNCHANGED <<varsPrepare, varsSnark>>

\* writer.flush()?; Ok(())
KeyFlush ==
    /\ kpc = "flush"
    /\ IF kw.buf = <<>>
       THEN /\ Leave("Ok", kw.failed)
            /\ UNCHANGED kfile
       ELSE \/ /\ Leave(AfterFlushError, TRUE)
               /\ UNCHANGED kfile
            \/ \E n \in 1..Len(kw.buf) :
                  /\ FlushBufStep(n)
                  /\ UNCHANGED kpc
    /\ UNCHANGED kres
    /\ UNCHANGED <<varsPrepare, varsSnark>>

\* line 469, the writer goes out of scope: BufWriter::drop runs flush_buf and
\* ignores its error, one write() per step; what a failed write() leaves in
\* the buffer is discarded; then the caller gets the result
KeyDrop ==
    /\ kpc = "drop"
    /\ IF kw.buf = <<>>
       THEN /\ kres' = [kres EXCEPT !.tag = kw.pending]
            /\ kw' = [kw EXCEPT !.pending = ""]
            /\ kpc' = "idle"
            /\ UNCHANGED kfile
       ELSE /\ \/ /\ kw' = [kw EXCEPT !.buf = <<>>]
                  /\ UNCHANGED kfile
               \/ \E n \in 1..Len(kw.buf) :
                     /\ kfile' = MkFile(kfile.bytes \o SubSeq(kw.buf, 1, n))
                     /\ kw' = [kw EXCEPT !.buf = SubSeq(kw.buf, n + 1, Len(kw.buf))]
            /\ UNCHANGED <<kpc, kres>>
    /\ UNCHANGED <<varsPrepare, varsSnark>>

\* the process dies: the buffer is lost, the file stays as it is
KeyCrash ==
    /\ ~kres.crashed
    /\ kpc' = "idle"
    /\ kw' = [kw EXCEPT !.buf = <<>>, !.pending = "", !.flushing = FALSE, !.direct = 0]
    /\ kres' = [kres EXCEPT !.crashed = TRUE]
    /\ UNCHANGED kfile
    /\ UNCHANGED <<varsPrepare, varsSnark>>

-----------------------------------------------------------------------------
(***************************************************************************)
(* Specifications                                                          *)
(***************************************************************************)
InitSnarkVars ==
    /\ pc = "idle"
    /\ held = NoSnark
    /\ file = [p \in Paths |-> NoFile]
    /\ res = NoRes
    /\ sv = NoSave

InitKeyVars ==
    /\ kpc = "idle"
    /\ kfile = NoFile
    /\ kw = NoKeyWriter
    /\ kres = NoKeyRes

\* the inputs of the prepare functions held at one value
FixedPrepareVars ==
    /\ data = [input_data |-> <<>>, input_shapes |-> <<>>, output_data |-> <<>>]
    /\ cli = [scale |-> 0, pack_base |-> 1, in_public |-> TRUE, out_public |-> TRUE,
              out_scales |-> <<>>]
    /\ overflow_checks = FALSE
    /\ circuit_res = NoCircuit
    /\ prep_res = NoPrep

\* SpecPrepare: the prepare functions alone
InitPrepare == InitPrepareVars /\ InitSnarkVars /\ InitKeyVars

NextPrepare == PrepareModelCircuit \/ PrepareModelCircuitAndPublicInput

SpecPrepare == InitPrepare /\ [][NextPrepare]_vars

\* Spec: proving and the proof artifact on disk
Init == InitSnarkVars /\ FixedPrepareVars /\ InitKeyVars

Next ==
    \/ CreateProofCircuit
    \/ SaveCreate
    \/ SaveWrite
    \/ Load
    \/ Crash

Spec == Init /\ [][Next]_vars

\* SpecProve: create_proof_circuit alone, called again and again
NextProve == CreateProofCircuit

SpecProve == Init /\ [][NextProve]_vars

\* SpecArtifact: the proof artifact on disk, from the moment a
\* create_proof_circuit call has returned a Snark to the caller
InitArtifact ==
    /\ \E c \in CpcResults :
          /\ c.ret.tag = "Ok"
          /\ held = c.ret.snark
          /\ res = CpcRes(c)
    /\ pc = "idle"
    /\ file = [p \in Paths |-> NoFile]
    /\ sv = NoSave
    /\ FixedPrepareVars
    /\ InitKeyVars

NextArtifact ==
    \/ SaveCreate
    \/ SaveWrite
    \/ Load
    \/ Crash

SpecArtifact == InitArtifact /\ [][NextArtifact]_vars

\* SpecKeys: the key/parameter writers alone
InitKeys == InitKeyVars /\ FixedPrepareVars /\ InitSnarkVars

NextKeys ==
    \/ SavePk
    \/ SaveVk
    \/ SaveParams
    \/ KeyWritePiece
    \/ KeyFlush
    \/ KeyDrop
    \/ KeyCrash

SpecKeys == InitKeys /\ [][NextKeys]_vars


-----------------------------------------------------------------------------
(***************************************************************************)
(* Properties of SpecPrepare                                               *)
(***************************************************************************)
\* floor(log_b(i128::MAX)) over the reals: the largest n with b^n <= 2^127 - 1
MathLogFloor(b) ==
    CASE b = 2 -> 126 [] b = 3 -> 80 [] b = 4 -> 63 [] b = 10 -> 38 [] b = 16 -> 31

\* (L-1)*(s+1) > log_b(i128::MAX) over the integers
MathExceeds(L, s, b) ==
    /\ L >= 2
    /\ \/ s + 1 > MathLogFloor(b)
       \/ L - 1 > MathLogFloor(b)
       \/ (L - 1) * (s + 1) > MathLogFloor(b)

\* the call got as far as the loop over the public outputs
ReachedOutputLoop ==
    /\ prep_res.tag # "None"
    /\ prepare_model_circuit(data, cli.scale).tag = "Ok"
    /\ cli.out_public
    /\ Len(data.output_data) <= Len(cli.out_scales)

\* C2: with pack_base > 1 the call fails with PackingExponent iff some public
\* output vector has (L-1)*(s+1) > log_b(i128::MAX) over the integers, and
\* otherwise pack is invoked on every output vector; with pack_base <= 1
\* neither the guard nor pack runs.
C2_PackingGuardExact ==
    ReachedOutputLoop =>
        IF cli.pack_base > 1
        THEN LET exceeds == \E i \in 1..Len(data.output_data) :
                                MathExceeds(Len(data.output_data[i]), cli.scale,
                                            cli.pack_base)
             IN  /\ (prep_res.tag = "Err" /\ prep_res.err = "PackingExponent") <=> exceeds
                 /\ ~exceeds => /\ prep_res.tag = "Ok"
                                /\ prep_res.packs = Len(data.output_data)
        ELSE /\ prep_res.err # "PackingExponent"
             /\ prep_res.packs = 0

\* the group the code is to produce for input vector v
ExpectedInputGroup(v) == [e \in 1..Len(v) |-> I128ToFelt(PlainInt(v[e], cli.scale))]

\* the group the code is to produce for output vector v, the j-th output
ExpectedOutputGroup(v, j) ==
    IF cli.pack_base > 1
    THEN << I128ToFelt([base |-> cli.pack_base, pscale |-> cli.scale,
                        digits |-> [e \in 1..Len(v) |-> <<v[e], cli.out_scales[j]>>]]) >>
    ELSE [e \in 1..Len(v) |-> I128ToFelt(PlainInt(v[e], cli.out_scales[j]))]

\* C3: the returned instance vectors are one group per input vector in input
\* order (only when inputs are public) followed by one group per output vector
\* in output order (only when outputs are public).
C3_InstanceGroupOrder ==
    prep_res.tag = "Ok" =>
        LET nIn == IF cli.in_public THEN Len(data.input_data) ELSE 0
            nOut == IF cli.out_public THEN Len(data.output_data) ELSE 0
        IN  /\ Len(prep_res.instances) = nIn + nOut
            /\ \A i \in 1..nIn :
                   prep_res.instances[i] = ExpectedInputGroup(data.input_data[i])
            /\ \A j \in 1..nOut :
                   prep_res.instances[nIn + j] = ExpectedOutputGroup(data.output_data[j], j)

\* both sides public, with different first vectors, and a result returned
C3_Witness ==
    /\ prep_res.tag = "Ok"
    /\ cli.in_public /\ cli.out_public
    /\ Len(data.input_data) = 2 /\ Len(data.output_data) = 2
    /\ data.input_data[1] # data.output_data[1]
    /\ data.input_data[1] # data.input_data[2]

\* C8: a ModelInput with len(input_data) # len(input_shapes) makes
\* prepare_model_circuit return an error, and an Ok circuit is built from
\* every vector of input_data.
C8_LengthMismatchSurfaced ==
    circuit_res.tag # "None" =>
        /\ Len(data.input_data) # Len(data.input_shapes) => circuit_res.tag = "Err"
        /\ circuit_res.tag = "Ok" => Len(circuit_res.inputs) = Len(data.input_data)

-----------------------------------------------------------------------------
(***************************************************************************)
(* Properties of SpecArtifact and SpecProve                                *)
(***************************************************************************)
\* C1: a load of the path that follows Snark::save(A) on that path returns an
\* artifact with A's instances and A's proof bytes, whether A carries a
\* protocol or not and whether the load is given params and vk or not (a save
\* that reported an I/O error is not a save that was done).
C1_RoundTrip ==
    [][(/\ res.op = "save" /\ res.tag \in {"Ok", "Panic"}
        /\ res'.op = "load" /\ res'.path = res.path)
       => (/\ res'.tag = "Ok"
           /\ held'.instances = held.instances
           /\ held'.proof = held.proof)]_vars

MockFailed(trace) ==
    \E i \in 1..Len(trace) :
        trace[i].stage \in {"mock_run", "mock_verify"} /\ ~trace[i].ok

Invoked(trace, stage) == \E i \in 1..Len(trace) : trace[i].stage = stage

\* C4: when the mock executor cannot be run or its verify reports a violation,
\* create_proof_circuit returns an error, create_proof is never invoked and the
\* caller gets no Snark.
C4_SafeModeStops ==
    [][(res'.op = "create_proof_circuit" /\ MockFailed(res'.calls))
       => (/\ res'.tag = "Err"
           /\ ~Invoked(res'.calls, "create_proof")
           /\ held' = held)]_vars

\* a SAFE call returned after its mock verify reported a violation, to a
\* caller that holds a Snark from an earlier call
C4_Witness ==
    /\ res.op = "create_proof_circuit"
    /\ Len(res.calls) = 2
    /\ res.calls[2] = Call("mock_verify", FALSE)
    /\ held.some

\* the stage of the claim's taxonomy a failed call stopped in
FailedStage(trace) ==
    LET last == trace[Len(trace)].stage
    IN  CASE last \in {"mock_run", "mock_verify"} -> "mock-check"
          [] last = "create_proof" -> "proving-protocol"
          [] last = "verify_proof" -> "self-verification"
          [] OTHER -> "none"

\* C5: the error value of a failed create_proof_circuit identifies the stage
\* that failed: two failed calls that return equal error values failed in the
\* same stage.
C5_ErrorIdentifiesStage ==
    [][(/\ res.op = "create_proof_circuit" /\ res.tag = "Err"
        /\ res'.op = "create_proof_circuit" /\ res'.tag = "Err"
        /\ res'.err = res.err)
       => FailedStage(res'.calls) = FailedStage(res.calls)]_vars

\* C6: a load without params or vk returns an artifact without protocol, and
\* Snark::save returns Ok or Err for every Snark the program can hold.
C6_SaveReturnsResult ==
    /\ (pc = "idle" /\ res.op = "load" /\ res.tag = "Ok" /\ ~res.ctx) =>
          ~held.protocol.present
    /\ (res.op = "save" /\ res.tag # "Running") => res.tag \in {"Ok", "Err"}

CountsMatch(num_instance, groups) ==
    /\ Len(num_instance) = Len(groups)
    /\ \A g \in 1..Len(groups) : num_instance[g] = Len(groups[g])

\* C7: every complete record on disk has one count per instance group, equal
\* to the group's length, and a protocol-aware load compiles its protocol with
\* the recorded counts, which are the lengths of the reloaded groups.
C7_CountsConsistent ==
    /\ \A p \in Paths :
          LET sb == FromStr(file[p].bytes)
          IN  (file[p].exists /\ sb.ok) => CountsMatch(sb.num_instance, sb.instances)
    /\ (pc = "idle" /\ res.op = "load" /\ res.tag = "Ok" /\ res.ctx) =>
          /\ held.protocol.present
          /\ held.protocol.num_instance = FromStr(file[res.path].bytes).num_instance
          /\ CountsMatch(held.protocol.num_instance, held.instances)
    /\ (pc = "idle" /\ res.op = "create_proof_circuit" /\ res.tag = "Ok") =>
          CountsMatch(held.protocol.num_instance, held.instances)

\* a protocol-aware load of an artifact with two groups of different lengths
C7_Witness ==
    /\ pc = "idle" /\ res.op = "load" /\ res.tag = "Ok" /\ res.ctx
    /\ held.protocol.present
    /\ Len(held.instances) = 2
    /\ Len(held.instances[1]) # Len(held.instances[2])

\* C10: while Snark::save runs, the file at its path holds either the content
\* it had before the call or the complete new serialization.
C10_AtomicSave ==
    pc = "save_write" =>
        \/ file[sv.path] = sv.prev
        \/ file[sv.path] = MkFile(sv.buf)

\* the stages of a trace, in the order they were invoked
Stages(trace) == [i \in 1..Len(trace) |-> trace[i].stage]

IsPrefix(s, t) == Len(s) <= Len(t) /\ \A i \in 1..Len(s) : s[i] = t[i]

\* the function went on past a stage only when that stage succeeded
StopsAtFailure(trace) == \A i \in 1..Len(trace) : ~trace[i].ok => i = Len(trace)

TimesInvoked(trace, stage) == Cardinality({i \in 1..Len(trace) : trace[i].stage = stage})

\* the mock check is MockProver::run followed by prover.verify()
SafeOrder == <<"mock_run", "mock_verify", "compile", "create_proof", "assemble", "verify_proof">>

FastOrder == <<"compile", "create_proof", "assemble">>

\* C11: in every create_proof_circuit call create_proof is invoked at most
\* once and nothing is invoked after a failed stage; with check_mode SAFE the
\* stages run in the order mock check, compile, create_proof, assemble,
\* self-verify and a Snark is returned only after a successful self-verify;
\* with any other check_mode neither the mock check nor the self-verify is
\* invoked and the Snark is returned right after the one successful
\* create_proof and the assembly.
C11_StageSequence ==
    res.op = "create_proof_circuit" =>
        /\ TimesInvoked(res.calls, "create_proof") <= 1
        /\ StopsAtFailure(res.calls)
        /\ IsSafe(res.mode) =>
              /\ IsPrefix(Stages(res.calls), SafeOrder)
              /\ res.tag = "Ok" =>
                    /\ Stages(res.calls) = SafeOrder
                    /\ res.calls[Len(res.calls)] = Call("verify_proof", TRUE)
        /\ ~IsSafe(res.mode) =>
              /\ ~Invoked(res.calls, "mock_run")
              /\ ~Invoked(res.calls, "mock_verify")
              /\ ~Invoked(res.calls, "verify_proof")
              /\ IsPrefix(Stages(res.calls), FastOrder)
              /\ res.tag = "Ok" <=>
                    /\ Stages(res.calls) = FastOrder
                    /\ res.calls[2] = Call("create_proof", TRUE)

\* a SAFE call whose create_proof succeeded and whose self-verify then
\* rejected the proof, to a caller holding a Snark from an earlier call
C11_Witness ==
    /\ res.op = "create_proof_circuit"
    /\ res.mode = "SAFE"
    /\ res.tag = "Err"
    /\ Len(res.calls) = 6
    /\ res.calls[4] = Call("create_proof", TRUE)
    /\ res.calls[6] = Call("verify_proof", FALSE)
    /\ held.some

-----------------------------------------------------------------------------
(***************************************************************************)
(* Properties of SpecKeys                                                  *)
(***************************************************************************)
\* C9: a key/parameter writer returns Ok only when the whole encoding is in
\* the file, a failed write or flush makes it return Err, and a crash after
\* an Ok leaves the whole encoding in the file.
C9_FlushBeforeSuccess ==
    /\ kres.tag = "Ok" => (kfile = MkFile(kw.enc) /\ ~kw.failed)
    /\ (kres.tag \in {"Ok", "Err"} /\ kw.failed) => kres.tag = "Err"

\* an encoding longer than the buffer was written, Ok returned, then a crash
C9_Witness ==
    /\ kres.tag = "Ok"
    /\ kres.crashed
    /\ Len(kw.enc) > BufCap

====
